---- MODULE Spec2Model ----
(***************************************************************************)
(* Model of src/tryCatch.ts: the Result type and the two async wrappers    *)
(* tryCatch(promise) and tryCatchFn(fn), run on a JavaScript event loop:   *)
(* a synchronous segment of code runs to completion, `await` suspends the  *)
(* async function and its continuation is run later as a job of the        *)
(* microtask queue.                                                        *)
(***************************************************************************)
EXTENDS Integers, Sequences, FiniteSets

\* ---------------------------------------------------------------- bounds
NumCalls == 2      \* wrapper calls that can be in flight
MaxVal   == 2      \* non-null values an operation can settle / throw with

\* ---------------------------------------------------------------- values
\* The encoding of the JavaScript value null (the absent marker of Result).
Null == 0

Calls  == 1..NumCalls
Values == {Null} \cup (1..MaxVal)

\* A success conversion that puts the value in the wrong slot.
SuccessSwapped(v) == [data |-> Null, error |-> v]

\* Success<T> = { data: T; error: null }, as built at lines 43 and 62.
Success(v) == [data |-> v, error |-> Null]

\* A failure conversion that replaces a thrown null by a real error value.
FailureNormalised(e) == [data |-> Null, error |-> IF e = Null THEN 1 ELSE e]

\* Failure<E> = { data: null; error: E }, as built at lines 45 and 64.
Failure(e) == [data |-> Null, error |-> e]

\* Result<T, E> = Success<T> | Failure<E>
Result == {Success(v) : v \in Values} \cup {Failure(e) : e \in Values}

\* The handle (promise) an async function returns, before it settles.
Pending == [state |-> "pending", result |-> <<>>, reason |-> <<>>]

\* `return r` in an async function fulfils the returned handle with r.
Return(r) == [state |-> "fulfilled", result |-> <<r>>, reason |-> <<>>]

\* An exception that leaves an async function rejects the returned handle.
Escape(e) == [state |-> "rejected", result |-> <<>>, reason |-> <<e>>]

\* A catch clause that rethrows what it caught.
CatchRethrow(e) == Escape(e)

\* catch (error) { return { data: null, error: error as E }; }
Catch(e) == Return(Failure(e))

\* The try block once the awaited value v is at hand:
\* const data = <v>; return { data, error: null };
Continue(v) == Return(Success(v))

\* A try block that leaves the thunk's invocation outside of it.
ProtectedAwaitOnly(pos) == pos = "await"

\* The positions of the function bodies that the try block encloses: the
\* invocation fn() and the await.
Protected(pos) == pos \in {"invoke", "await"}

\* An exception e raised at position pos of the body.
Throw(pos, e) == IF Protected(pos) THEN Catch(e) ELSE Escape(e)

\* An await that suspends only on asynchronous handles.
SuspendsOnlyOnHandle(x) == x.kind = "promise"

\* `await x` suspends the async function whatever x is: a plain value is
\* wrapped in a resolved promise and the continuation is queued as a job.
Suspends(x) == TRUE

\* An await that treats a promise as settled whatever its state.
ReadyAlways(p) == TRUE

\* A promise's reaction job is queued only once the promise is settled.
Ready(p) == p.state \in {"fulfilled", "rejected"}

\* The thunks a caller can pass: returns a plain value, throws synchronously,
\* or returns a promise (the call's wrapped operation).
Thunks == [kind : {"plain", "throw"}, val : Values]
              \cup {[kind |-> "promise", val |-> Null]}
NoThunk == [kind |-> "none", val |-> Null]

\* The job that resumes call c with the settlement of promise p.
ResumeJob(c, p) == [call |-> c, ok |-> p.state = "fulfilled", val |-> p.val]

VARIABLES
  api,      \* api[c]: which wrapper call c is ("none" before the call)
  thunk,    \* thunk[c]: the fn passed to tryCatchFn
  prom,     \* prom[c]: the wrapped asynchronous operation of call c
  phase,    \* phase[c]: "idle", "suspended" (at the await), "done"
  waiting,  \* waiting[c]: c's continuation is registered on a pending promise
  handle,   \* handle[c]: the promise the wrapper returned
  queue,    \* the microtask queue
  invoked,  \* invoked[c]: how often fn was invoked, and where
  awaits    \* awaits[c]: suspensions at the await executed by call c

vars == <<api, thunk, prom, phase, waiting, handle, queue, invoked, awaits>>

NoProm == [state |-> "none", val |-> Null]

Init ==
  /\ api = [c \in Calls |-> "none"]
  /\ thunk = [c \in Calls |-> NoThunk]
  /\ prom = [c \in Calls |-> NoProm]
  /\ phase = [c \in Calls |-> "idle"]
  /\ waiting = [c \in Calls |-> FALSE]
  /\ handle = [c \in Calls |-> Pending]
  /\ queue = <<>>
  /\ invoked = [c \in Calls |-> <<>>]
  /\ awaits = [c \in Calls |-> 0]

\* A call that awaits the promise of call 1 whatever its own argument is.
SharedOperand(c) == 1

\* The promise call c awaits: its own argument (`promise`, or what its own
\* fn() returned); each invocation has its own parameters and locals.
Operand(c) == c

\* Continuations registered on no promise at all.
NoWaiters(p) == {}

\* The calls whose continuation is registered as a reaction of promise p.
Waiters(p) == {c \in Calls : waiting[c] /\ Operand(c) = p}

\* The caller starts an asynchronous operation (a promise it can pass on to
\* the wrapper call c it has not made yet).
Start(c) ==
  /\ api[c] = "none"
  /\ prom[c].state = "none"
  /\ prom' = [prom EXCEPT ![c] = [state |-> "pending", val |-> Null]]
  /\ UNCHANGED <<api, thunk, phase, waiting, handle, queue, invoked, awaits>>

RECURSIVE JobsFor(_, _)
\* The reaction jobs of the calls in S, in call order, for settlement p.
JobsFor(S, p) ==
  IF S = {} THEN <<>>
  ELSE LET c == CHOOSE x \in S : \A y \in S : x <= y
       IN <<ResumeJob(c, p)>> \o JobsFor(S \ {c}, p)

\* The operation of call c settles: it resolves to v or rejects with v. The
\* continuations registered on it are queued as jobs.
Settle(c, ok, v) ==
  /\ prom[c].state = "pending"
  /\ LET p == [state |-> IF ok THEN "fulfilled" ELSE "rejected", val |-> v]
     IN /\ prom' = [prom EXCEPT ![c] = p]
        /\ queue' = queue \o JobsFor(Waiters(c), p)
        /\ waiting' = [d \in Calls |-> waiting[d] /\ d \notin Waiters(c)]
  /\ UNCHANGED <<api, thunk, phase, handle, invoked, awaits>>

\* `await <promise>` by call c, the operand being in state p: the function
\* suspends; the continuation is queued at once when the promise is already
\* settled and registered on the promise otherwise.
AwaitPromise(c, p) ==
  /\ phase' = [phase EXCEPT ![c] = "suspended"]
  /\ awaits' = [awaits EXCEPT ![c] = @ + 1]
  /\ handle' = handle
  /\ IF Ready(p)
       THEN /\ queue' = Append(queue, ResumeJob(c, p))
            /\ waiting' = waiting
       ELSE /\ queue' = queue
            /\ waiting' = [waiting EXCEPT ![c] = TRUE]

\* tryCatch(promise), lines 38-47: up to the suspension at line 42.
CallTryCatch(c) ==
  /\ phase[c] = "idle"
  /\ prom[Operand(c)].state # "none"
  /\ api' = [api EXCEPT ![c] = "tryCatch"]
  /\ AwaitPromise(c, prom[Operand(c)])
  /\ UNCHANGED <<thunk, prom, invoked>>

\* tryCatchFn(fn), lines 57-66: fn is invoked inside the try block; a
\* synchronous throw goes to the catch clause, a returned value is awaited.
CallTryCatchFn(c, t) ==
  /\ phase[c] = "idle"
  \* a thunk that returns a plain value or throws wraps no operation
  /\ t.kind \in {"plain", "throw"} => prom[c].state = "none"
  /\ api' = [api EXCEPT ![c] = "tryCatchFn"]
  /\ thunk' = [thunk EXCEPT ![c] = t]
  /\ invoked' = [invoked EXCEPT ![c] = Append(@, Protected("invoke"))]
  /\ CASE t.kind = "throw" ->
            /\ handle' = [handle EXCEPT ![c] = Throw("invoke", t.val)]
            /\ phase' = [phase EXCEPT ![c] = "done"]
            /\ UNCHANGED <<prom, waiting, queue, awaits>>
       [] t.kind = "plain" ->
            /\ prom' = prom
            /\ waiting' = waiting
            /\ IF Suspends(t)
                 THEN /\ phase' = [phase EXCEPT ![c] = "suspended"]
                      /\ awaits' = [awaits EXCEPT ![c] = @ + 1]
                      /\ queue' = Append(queue,
                                    [call |-> c, ok |-> TRUE, val |-> t.val])
                      /\ handle' = handle
                 ELSE /\ phase' = [phase EXCEPT ![c] = "done"]
                      /\ awaits' = awaits
                      /\ queue' = queue
                      /\ handle' = [handle EXCEPT ![c] = Continue(t.val)]
       [] t.kind = "promise" ->
            \* the thunk returns a promise: one the caller holds already, or
            \* an operation the thunk starts itself
            LET p == IF prom[Operand(c)].state = "none"
                       THEN [state |-> "pending", val |-> Null]
                       ELSE prom[Operand(c)]
            IN /\ prom' = [prom EXCEPT ![Operand(c)] = p]
               /\ AwaitPromise(c, p)

\* The event loop runs the job at the head of the microtask queue: the
\* continuation of a wrapper call resumes at its await with the awaited value,
\* or with the rejection raised at the await, and runs to its return.
RunJob ==
  /\ queue # <<>>
  /\ LET j == Head(queue)
     IN /\ queue' = Tail(queue)
        /\ phase' = [phase EXCEPT ![j.call] = "done"]
        /\ handle' = [handle EXCEPT ![j.call] =
                        IF j.ok THEN Continue(j.val)
                                ELSE Throw("await", j.val)]
  /\ UNCHANGED <<api, thunk, prom, waiting, invoked, awaits>>

Next ==
  \/ \E c \in Calls : Start(c)
  \/ \E c \in Calls, ok \in BOOLEAN, v \in Values : Settle(c, ok, v)
  \/ \E c \in Calls : CallTryCatch(c)
  \/ \E c \in Calls, t \in Thunks : CallTryCatchFn(c, t)
  \/ RunJob

Spec == Init /\ [][Next]_vars

\* The event loop drains the microtask queue: a queued job is eventually run.
FairSpec == Spec /\ WF_vars(RunJob)

\* ------------------------------------------------ vocabulary of the claims
Called(c) == phase[c] # "idle"
Settled(c) == handle[c].state # "pending"
IsFn(c) == api[c] = "tryCatchFn"
\* The call awaits a promise: its argument, or what its thunk returned.
AwaitsPromise(c) ==
  api[c] = "tryCatch" \/ (IsFn(c) /\ thunk[c].kind = "promise")
\* The wrapped operation of call c completed normally / abnormally.
Normal(c) ==
  \/ IsFn(c) /\ thunk[c].kind = "plain"
  \/ AwaitsPromise(c) /\ prom[c].state = "fulfilled"
Abnormal(c) ==
  \/ IsFn(c) /\ thunk[c].kind = "throw"
  \/ AwaitsPromise(c) /\ prom[c].state = "rejected"
Completed(c) == Normal(c) \/ Abnormal(c)
\* The value the wrapped operation of call c completed with.
OutcomeVal(c) == IF AwaitsPromise(c) THEN prom[c].val ELSE thunk[c].val
\* The Result value the handle of call c was fulfilled with.
ResultOf(c) == handle[c].result[1]
\* The handle that the settlement of c's own operation calls for.
Own(c) ==
  [state |-> "fulfilled",
   result |-> <<IF Normal(c) THEN [data |-> OutcomeVal(c), error |-> Null]
                             ELSE [data |-> Null, error |-> OutcomeVal(c)]>>,
   reason |-> <<>>]

TypeOK ==
  /\ api \in [Calls -> {"none", "tryCatch", "tryCatchFn"}]
  /\ thunk \in [Calls -> Thunks \cup {NoThunk}]
  /\ phase \in [Calls -> {"idle", "suspended", "done"}]
  /\ waiting \in [Calls -> BOOLEAN]
  /\ \A c \in Calls : handle[c].state \in {"pending", "fulfilled", "rejected"}

\* C1: every Result a wrapper produces has exactly one of its slots data and
\* error holding a non-absent value, whatever the operation settled with.
MutualExclusivity ==
  \A c \in Calls :
    handle[c].state = "fulfilled" =>
      (ResultOf(c).data # Null) # (ResultOf(c).error # Null)

\* C2: the handle returned by tryCatch and tryCatchFn is never rejected, and
\* when it settles it is fulfilled with a Result.
NeverThrows ==
  \A c \in Calls :
    /\ handle[c].state # "rejected"
    /\ handle[c].reason = <<>>
    /\ Settled(c) => Len(handle[c].result) = 1 /\ ResultOf(c) \in Result

\* C2 witness: an operation that failed, synchronously in one call and
\* asynchronously in another, and both handles are fulfilled.
NeverThrowsWitness ==
  \E c, d \in Calls :
    /\ IsFn(c) /\ thunk[c].kind = "throw" /\ handle[c].state = "fulfilled"
    /\ AwaitsPromise(d) /\ prom[d].state = "rejected"
    /\ handle[d].state = "fulfilled"

\* C3: an operation that completes normally with v gives { data: v, error:
\* null } with v unchanged, and tryCatchFn gives the same Result for a thunk
\* returning plain v as for a thunk returning a promise that resolves to v.
SuccessRoundTrip ==
  /\ \A c \in Calls :
       Settled(c) /\ Normal(c) =>
         /\ handle[c].state = "fulfilled"
         /\ ResultOf(c) = [data |-> OutcomeVal(c), error |-> Null]
  /\ \A c, d \in Calls :
       /\ IsFn(c) /\ thunk[c].kind = "plain" /\ Settled(c)
       /\ IsFn(d) /\ thunk[d].kind = "promise" /\ Settled(d)
       /\ prom[d].state = "fulfilled" /\ prom[d].val = thunk[c].val
       => handle[c] = handle[d]

\* C3 witness: a thunk returning plain v and a thunk returning a promise that
\* resolved to the same non-null v, both calls settled.
SuccessRoundTripWitness ==
  \E c, d \in Calls :
    /\ IsFn(c) /\ thunk[c].kind = "plain" /\ thunk[c].val # Null
    /\ IsFn(d) /\ thunk[d].kind = "promise" /\ prom[d].state = "fulfilled"
    /\ prom[d].val = thunk[c].val
    /\ Settled(c) /\ Settled(d)

\* C4: an operation that completes abnormally with e gives { data: null,
\* error: e } with e the very value thrown or rejected.
FailureRoundTrip ==
  \A c \in Calls :
    Settled(c) /\ Abnormal(c) =>
      /\ handle[c].state = "fulfilled"
      /\ ResultOf(c) = [data |-> Null, error |-> OutcomeVal(c)]

\* C4 witness: a promise passed to tryCatch rejected with null and a thunk
\* threw a non-null value, both calls settled.
FailureRoundTripWitness ==
  \E c, d \in Calls :
    /\ api[c] = "tryCatch" /\ prom[c].state = "rejected"
    /\ prom[c].val = Null /\ Settled(c)
    /\ IsFn(d) /\ thunk[d].kind = "throw" /\ thunk[d].val # Null
    /\ Settled(d)

\* C5: the error slot of a Result is null exactly when the operation
\* completed normally, and the data slot is null exactly when it completed
\* abnormally.
DiscriminationSound ==
  \A c \in Calls :
    handle[c].state = "fulfilled" =>
      /\ (ResultOf(c).error = Null) <=> Normal(c)
      /\ (ResultOf(c).data = Null) <=> Abnormal(c)

\* C6: once a wrapper is called and its operation has completed (the promise
\* settled, or the thunk returned a plain value or threw), the handle is
\* eventually fulfilled with a Result.
SettlementLiveness ==
  \A c \in Calls :
    (Called(c) /\ Completed(c))
      ~> (handle[c].state = "fulfilled" /\ ResultOf(c) \in Result)

\* C6 witness: a call suspended on a promise that was pending at the call has
\* been resumed after the promise rejected, and its handle is fulfilled.
SettlementLivenessWitness ==
  \E c \in Calls :
    /\ AwaitsPromise(c) /\ prom[c].state = "rejected"
    /\ phase[c] = "done" /\ handle[c].state = "fulfilled"
    /\ queue = <<>>

\* C7: the handle of a call that awaits a promise p is not settled, and its
\* continuation is not even queued, while p is pending.
NoEarlySettlement ==
  \A c \in Calls :
    AwaitsPromise(c) /\ prom[c].state = "pending" =>
      /\ handle[c] = Pending
      /\ phase[c] = "suspended"
      /\ \A i \in 1..Len(queue) : queue[i].call # c

\* C7 witness: a call is suspended on a pending promise while the other
\* call has settled and the queue is empty: nothing is left to run.
NoEarlySettlementWitness ==
  \E c, d \in Calls :
    /\ AwaitsPromise(c) /\ prom[c].state = "pending" /\ waiting[c]
    /\ d # c /\ Settled(d)
    /\ queue = <<>>

\* C8 as stated: a tryCatchFn call whose thunk returned a plain value is never
\* suspended at the await.
PlainThunkNeverSuspends ==
  \A c \in Calls :
    IsFn(c) /\ thunk[c].kind = "plain" =>
      phase[c] # "suspended" /\ awaits[c] = 0

\* C8 as amended: a tryCatchFn call suspends at its await exactly once
\* whenever the thunk returns, a plain value included, and its handle stays
\* pending until the queued continuation runs; only a synchronous throw
\* produces the Result without a suspension.
AwaitAlwaysSuspends ==
  \A c \in Calls :
    IsFn(c) =>
      /\ thunk[c].kind \in {"plain", "promise"} => awaits[c] = 1
      /\ thunk[c].kind = "throw" => awaits[c] = 0 /\ phase[c] = "done"
      /\ phase[c] = "suspended" => handle[c] = Pending

\* C8 witness: a call whose thunk returned a plain value is suspended and the
\* continuation of another task is ahead of its own in the queue.
AwaitAlwaysSuspendsWitness ==
  \E c \in Calls :
    /\ IsFn(c) /\ thunk[c].kind = "plain" /\ phase[c] = "suspended"
    /\ Len(queue) = 2 /\ queue[1].call # c /\ queue[2].call = c

\* C9: tryCatchFn invokes the thunk exactly once, inside the try block
\* (tryCatch invokes nothing); when the invocation throws, the call goes to
\* the failure conversion without executing an await.
ThunkInvokedOnce ==
  \A c \in Calls :
    /\ IsFn(c) => invoked[c] = <<TRUE>>
    /\ ~IsFn(c) => invoked[c] = <<>>
    /\ IsFn(c) /\ thunk[c].kind = "throw" =>
         /\ awaits[c] = 0
         /\ phase[c] = "done"
         /\ handle[c].state = "fulfilled"
         /\ ResultOf(c).error = thunk[c].val

\* C9 witness: a thunk threw a non-null value and the call is done, while a
\* thunk that returned a promise has been invoked once and is suspended.
ThunkInvokedOnceWitness ==
  \E c, d \in Calls :
    /\ IsFn(c) /\ thunk[c].kind = "throw" /\ thunk[c].val # Null
    /\ phase[c] = "done" /\ Len(invoked[c]) = 1
    /\ IsFn(d) /\ thunk[d].kind = "promise" /\ phase[d] = "suspended"
    /\ Len(invoked[d]) = 1

\* A step that settles the handle of call c settles it with the conversion of
\* c's own operation and leaves every other call as it was.
OwnStep(c) ==
  handle'[c] # handle[c] =>
    /\ Completed(c)'
    /\ handle'[c] = Own(c)'
    /\ \A d \in Calls \ {c} :
         /\ handle'[d] = handle[d]
         /\ phase'[d] = phase[d]
         /\ prom'[d] = prom[d]
         /\ thunk'[d] = thunk[d]

\* C10: with several calls in flight and their operations settling in any
\* order, the Result of each call is the conversion of the settlement of its
\* own operation, and a step of one call changes nothing of another call.
Independence ==
  /\ [](\A c \in Calls : Settled(c) => Completed(c) /\ handle[c] = Own(c))
  /\ [][\A c \in Calls : OwnStep(c)]_vars

\* C10 witness: both calls are suspended at once, their operations settled
\* differently, and the continuations are queued in the reverse order of the
\* calls.
IndependenceWitness ==
  \E c, d \in Calls :
    /\ c < d
    /\ phase[c] = "suspended" /\ AwaitsPromise(c)
    /\ phase[d] = "suspended" /\ AwaitsPromise(d)
    /\ Len(queue) = 2 /\ queue[1].call = d /\ queue[2].call = c
    /\ <<queue[1].ok, queue[1].val>> # <<queue[2].ok, queue[2].val>>
====
